---- MODULE Spec2Model ----
(***************************************************************************)
(* Model of src/ibm.py: the IBM HR attrition analysis script.  The script  *)
(* is a straight-line program over one pandas DataFrame (df): load the CSV *)
(* file, print an overview, drop the constant candidate columns, recode    *)
(* seven integer-coded columns to labels, compute the attrition rate and   *)
(* render four groups of charts.  An uncaught exception ends the run.      *)
(***************************************************************************)
EXTENDS Integers, Sequences, FiniteSets, TLC

VARIABLES file, pc, df, i, recoded, attrition_rate, stdout, error, figures, trace

vars == <<file, pc, df, i, recoded, attrition_rate, stdout, error, figures, trace>>

(* ----------------------------- bounds --------------------------------- *)

\* Largest number of records of the datasets that vary the candidate
\* columns and the Attrition column.
MaxRows == 3

\* Largest number of records of the datasets that vary the codes of one
\* ordinal column.
MaxCodeRows == 2

\* Largest number of records of the datasets whose columns are recoded in
\* every order.
MaxOrderRows == 1

\* Largest number of records of the datasets that lack a column.
MaxSchemaRows == 2

(* ------------------------------ cells --------------------------------- *)

\* A cell of the table: an integer, a string, or pandas' missing value.
IntCell(k) == [kind |-> "int", int |-> k, str |-> ""]

StrCell(s) == [kind |-> "str", int |-> 0, str |-> s]

NaN == [kind |-> "nan", int |-> 0, str |-> ""]

\* The DataFrame: its number of rows (the index) and its columns, each a
\* sequence of n cells.
Columns(D) == DOMAIN D.col

len(D) == D.n

\* df before pd.read_csv has bound it.
NoDataFrame == [n |-> 0 - 1, col |-> [c \in {} |-> <<>>]]

\* attrition_rate before line 93 has bound it (a double has 53 bits).
NoRate == [sig |-> <<>>, exp |-> 0]

(* --------------------------- the script's lists ------------------------ *)

columns_to_drop == <<"EmployeeCount", "StandardHours", "Over18">>

education_map == <<"Below College", "College", "Bachelor", "Master", "Doctor">>

environment_satisfaction_map == <<"Low", "Medium", "High", "Very High">>

job_involvement_map == <<"Low", "Medium", "High", "Very High">>

job_satisfaction_map == <<"Low", "Medium", "High", "Very High">>

performance_rating_map == <<"Low", "Good", "Excellent", "Outstanding">>

relationship_satisfaction_map == <<"Low", "Medium", "High", "Very High">>

work_life_balance_map == <<"Bad", "Good", "Better", "Best">>

\* The seven recoded columns, in the order of lines 77-83.
OrdinalColumns ==
    <<"Education", "EnvironmentSatisfaction", "JobInvolvement", "JobSatisfaction",
      "PerformanceRating", "RelationshipSatisfaction", "WorkLifeBalance">>

\* The mapping table each of the lines 77-83 passes to Series.map.
OrdinalMap(c) ==
    CASE c = "Education" -> education_map
      [] c = "EnvironmentSatisfaction" -> environment_satisfaction_map
      [] c = "JobInvolvement" -> job_involvement_map
      [] c = "JobSatisfaction" -> job_satisfaction_map
      [] c = "PerformanceRating" -> performance_rating_map
      [] c = "RelationshipSatisfaction" -> relationship_satisfaction_map
      [] c = "WorkLifeBalance" -> work_life_balance_map

categorical_features ==
    <<"Gender", "MaritalStatus", "Department", "JobRole", "EducationField",
      "BusinessTravel", "JobSatisfaction", "EnvironmentSatisfaction",
      "WorkLifeBalance", "JobInvolvement">>

numerical_features ==
    <<"Age", "MonthlyIncome", "YearsAtCompany", "DistanceFromHome",
      "TotalWorkingYears">>

Range(s) == {s[k] : k \in DOMAIN s}

(* ------------------------ pandas primitives --------------------------- *)

\* Series.nunique(): the number of distinct values, missing values not
\* counted (dropna=True is the default).
nunique(s) == Cardinality(Range(s) \ {NaN})

\* df.drop(columns=[col], inplace=True)
DropColumn(D, col) == [D EXCEPT !.col = [c \in Columns(D) \ {col} |-> D.col[c]]]

\* A condition that forgets to count the distinct values.
ShouldDropPresent(D, col) == col \in Columns(D)

\* The condition of line 63.
ShouldDrop(D, col) == col \in Columns(D) /\ nunique(D.col[col]) = 1

\* One iteration of the loop of lines 62-65 on the table D.
PruneColumn(D, col) == IF ShouldDrop(D, col) THEN DropColumn(D, col) ELSE D

\* A loop that ends at the first column it drops.
LoopNextBreak(D, k) ==
    IF ShouldDrop(D, columns_to_drop[k]) \/ k >= Len(columns_to_drop) THEN 0 ELSE k + 1

\* for col in columns_to_drop: the index of the iteration after iteration k
\* on the table D, 0 when the list is exhausted.
LoopNext(D, k) == IF k < Len(columns_to_drop) THEN k + 1 ELSE 0

\* The loop of lines 62-65 on the table D, from iteration k on.
RECURSIVE PruneFrom(_, _)
PruneFrom(D, k) ==
    IF k = 0 THEN D ELSE PruneFrom(PruneColumn(D, columns_to_drop[k]), LoopNext(D, k))

\* The whole loop of lines 62-65 on the table D.
prune_constant_columns(D) == PruneFrom(D, 1)

\* Series.replace(dict) in place of Series.map(dict): a cell that is no key
\* of the dict is kept.
SeriesReplace(s, m) ==
    [k \in DOMAIN s |->
        IF s[k].kind = "int" /\ s[k].int \in DOMAIN m THEN StrCell(m[s[k].int]) ELSE s[k]]

\* Series.map(dict): the dict's value for a cell that is one of its keys
\* (1 and 1.0 are the same key), a missing value for every other cell.
SeriesMap(s, m) ==
    [k \in DOMAIN s |->
        IF s[k].kind = "int" /\ s[k].int \in DOMAIN m THEN StrCell(m[s[k].int]) ELSE NaN]

\* Every statement passing the table of line 72, as a pasted line would.
RecodeColumnPasted(D, c) ==
    [D EXCEPT !.col[c] = SeriesMap(D.col[c], job_satisfaction_map)]

\* The map applied to the whole table instead of to column c.
RecodeColumnWholeTable(D, c) ==
    [D EXCEPT !.col = [x \in Columns(D) |-> SeriesMap(D.col[x], OrdinalMap(c))]]

\* df[c] = df[c].map(map_of_c): one of the lines 77-83.
RecodeColumn(D, c) == [D EXCEPT !.col[c] = SeriesMap(D.col[c], OrdinalMap(c))]

\* The lines 77-83 on the table D, from the k-th statement on.
RECURSIVE RecodeFrom(_, _)
RecodeFrom(D, k) ==
    IF k > Len(OrdinalColumns) THEN D
    ELSE RecodeFrom(RecodeColumn(D, OrdinalColumns[k]), k + 1)

\* Series.value_counts(): the count of each distinct non-missing value.
value_counts(s) ==
    [v \in Range(s) \ {NaN} |-> Cardinality({k \in DOMAIN s : s[k] = v})]

(* ------------------- IEEE 754 double arithmetic ------------------------ *)

\* A natural number is a sequence of bits, most significant first.  A
\* positive double is [sig, exp]: the 53 bits of its significand (the first
\* is 1) and its exponent, the value being sig * 2^(exp - 52).

\* The bits of the natural number n, none for 0.
RECURSIVE BitsOf(_)
BitsOf(n) == IF n = 0 THEN <<>> ELSE Append(BitsOf(n \div 2), n % 2)

\* The natural number of at most 30 bits.
RECURSIVE ToInt(_)
ToInt(bits) ==
    IF bits = <<>> THEN 0
    ELSE 2 * ToInt(SubSeq(bits, 1, Len(bits) - 1)) + bits[Len(bits)]

\* bits + 1, the carry entering at position k.
RECURSIVE IncAt(_, _)
IncAt(bits, k) ==
    IF k = 0 THEN <<1>> \o bits
    ELSE IF bits[k] = 0 THEN [bits EXCEPT ![k] = 1]
    ELSE IncAt([bits EXCEPT ![k] = 0], k - 1)

Inc(bits) == IncAt(bits, Len(bits))

\* bits * m for a small natural number m: the positions k..1 still to
\* multiply, the carry, and the low bits found so far.
RECURSIVE MulAt(_, _, _, _, _)
MulAt(bits, m, k, carry, low) ==
    IF k = 0 THEN BitsOf(carry) \o low
    ELSE MulAt(bits, m, k - 1, (bits[k] * m + carry) \div 2,
               <<(bits[k] * m + carry) % 2>> \o low)

MulSmall(bits, m) == MulAt(bits, m, Len(bits), 0, <<>>)

\* n zero bits, none for n <= 0.
Zeros(n) == IF n <= 0 THEN <<>> ELSE [k \in 1..n |-> 0]

\* bits / 2^s rounded to the nearest natural number, ties to even.
RoundShift(bits, s) ==
    LET padded == Zeros(s - Len(bits)) \o bits
        L == Len(padded)
        kept == SubSeq(padded, 1, L - s)
        up == /\ s > 0
              /\ padded[L - s + 1] = 1
              /\ \/ \E k \in (L - s + 2)..L : padded[k] = 1
                 \/ (kept # <<>> /\ kept[Len(kept)] = 1)
    IN  IF up THEN Inc(kept) ELSE kept

\* bits / 2^s cut to a natural number.
CutShift(bits, s) ==
    SubSeq(Zeros(s - Len(bits)) \o bits, 1, Len(Zeros(s - Len(bits)) \o bits) - s)

\* A significand of 54 bits after a carry (1 and 53 zeros) renormalised.
Normalise(sig, exp) ==
    IF Len(sig) = 54 THEN [sig |-> SubSeq(sig, 1, 53), exp |-> exp + 1]
    ELSE [sig |-> sig, exp |-> exp]

\* The exponent of a / b: 2^e <= a / b < 2^(e + 1).
RECURSIVE ExponentOf(_, _)
ExponentOf(a, b) ==
    IF a < b THEN ExponentOf(2 * a, b) - 1
    ELSE IF a >= 2 * b THEN ExponentOf(a, 2 * b) + 1
    ELSE 0

\* Long division: k more bits of the quotient after the bits acc, r the
\* remainder so far (r < b); the last remainder decides the rounding.
RECURSIVE DivBits(_, _, _, _)
DivBits(acc, r, b, k) ==
    IF k = 0
    THEN IF 2 * r > b \/ (2 * r = b /\ acc[Len(acc)] = 1) THEN Inc(acc) ELSE acc
    ELSE IF 2 * r >= b THEN DivBits(Append(acc, 1), 2 * r - b, b, k - 1)
    ELSE DivBits(Append(acc, 0), 2 * r, b, k - 1)

\* a / b of two positive integers as doubles: the quotient rounded to
\* nearest, ties to even.
RECURSIVE FloatDivScaled(_, _, _)
FloatDivScaled(a, b, e) ==
    IF a < b THEN FloatDivScaled(2 * a, b, e)
    ELSE IF a >= 2 * b THEN FloatDivScaled(a, 2 * b, e)
    ELSE Normalise(DivBits(<<1>>, a - b, b, 52), e)

FloatDiv(a, b) == FloatDivScaled(a, b, ExponentOf(a, b))

\* x * m of a double and a small positive integer: the product rounded to
\* nearest, ties to even.
FloatMulInt(x, m) ==
    LET product == MulSmall(x.sig, m)
        drop == Len(product) - 53
    IN  Normalise(RoundShift(product, drop), x.exp + drop)

\* counts['Yes'] of line 93 is a key of the counts (else a KeyError).
HasYes(D) == StrCell("Yes") \in DOMAIN value_counts(D.col["Attrition"])

\* (attrition_counts['Yes'] / len(df)) * 100 of line 93: the division
\* first, then the multiplication, each rounded to a double.
AttritionRate(D) ==
    FloatMulInt(FloatDiv(value_counts(D.col["Attrition"])[StrCell("Yes")], len(D)), 100)

\* The rate in hundredths, cut instead of rounded.
HundredthsTruncated(r) == ToInt(CutShift(MulSmall(r.sig, 100), 52 - r.exp))

\* The rate in hundredths: the double's exact value times 100 rounded to
\* nearest, ties to even, as the format specification .2f of line 94 does.
Hundredths(r) == ToInt(RoundShift(MulSmall(r.sig, 100), 52 - r.exp))

\* f"{attrition_rate:.2f}"
Format2f(r) ==
    LET h == Hundredths(r)
        d == h % 100
    IN  ToString(h \div 100) \o "." \o (IF d < 10 THEN "0" ELSE "") \o ToString(d)

\* A row of the table.
Row(D, k) == [c \in Columns(D) |-> D.col[c][k]]

\* df.duplicated().sum(): the rows equal to an earlier row.
DuplicatedCount(D) ==
    Cardinality({k \in 1..len(D) : \E j \in 1..(k - 1) : Row(D, j) = Row(D, k)})

\* The columns each chart stage reads (hue='Attrition' everywhere).
CountPlotColumns == Range(categorical_features) \cup {"Attrition"}

HistPlotColumns == Range(numerical_features) \cup {"Attrition"}

ViolinPlotColumns == {"Education", "MonthlyIncome", "Attrition"}

BoxPlotColumns == {"JobRole", "DistanceFromHome", "Attrition"}

(* ------------------------------ inputs -------------------------------- *)

OrdinalSet == Range(OrdinalColumns)

CandidateSet == Range(columns_to_drop)

\* The columns the script names: the schema of the modelled input.
Schema == CandidateSet \cup OrdinalSet \cup CountPlotColumns \cup HistPlotColumns
            \cup ViolinPlotColumns \cup BoxPlotColumns

\* A schema-conforming record: constant candidates, valid codes, "Yes" in
\* the odd rows.
DefaultCell(c, k) ==
    CASE c = "EmployeeCount" -> IntCell(1)
      [] c = "StandardHours" -> IntCell(80)
      [] c = "Over18" -> StrCell("Y")
      [] c = "Attrition" -> StrCell(IF k % 2 = 1 THEN "Yes" ELSE "No")
      [] c \in OrdinalSet -> IntCell(1 + (k % 4))
      [] c \in Range(numerical_features) -> IntCell(k)
      [] OTHER -> StrCell("A")

Default(n) == [n |-> n, col |-> [c \in Schema |-> [k \in 1..n |-> DefaultCell(c, k)]]]

\* D with column c set to the cells v; D without column c when v is Absent.
Absent == <<[kind |-> "absent", int |-> 0, str |-> ""]>>

WithColumn(D, c, v) ==
    IF v = Absent
    THEN [D EXCEPT !.col = [x \in Columns(D) \ {c} |-> D.col[x]]]
    ELSE [D EXCEPT !.col = [x \in Columns(D) \cup {c} |-> IF x = c THEN v ELSE D.col[x]]]

Vectors(S, n) == [1..n -> S]

\* Inputs that vary the candidate columns: each absent or present,
\* constant, varied or with missing cells.
PruneInputs ==
    UNION {
        { WithColumn(WithColumn(WithColumn(Default(n), "EmployeeCount", ec),
                                "StandardHours", sh), "Over18", o)
          : <<ec, sh, o>> \in
              (Vectors({IntCell(1), IntCell(2), NaN}, n) \cup {Absent})
              \X {Absent, [k \in 1..n |-> IntCell(80)],
                  [k \in 1..n |-> IntCell(IF k = 1 THEN 40 ELSE 80)]}
              \X {Absent, [k \in 1..n |-> StrCell("Y")]} }
        : n \in 0..MaxRows }

\* Inputs that vary the Attrition column.
AttritionInputs ==
    UNION { { WithColumn(Default(n), "Attrition", a)
              : a \in Vectors({StrCell("Yes"), StrCell("No"), NaN}, n) }
            : n \in 0..MaxRows }

\* Inputs that vary the codes of one ordinal column: the valid codes, one
\* below and one above the largest domain, and a missing cell.
CodeCells == {IntCell(k) : k \in 0..6} \cup {NaN}

CodeInputs ==
    UNION { { WithColumn(Default(n), c, v)
              : <<c, v>> \in OrdinalSet \X Vectors(CodeCells, n) }
            : n \in 1..MaxCodeRows }

\* Inputs that lack one column of the schema.
SchemaInputs == { WithColumn(Default(n), c, Absent) : <<n, c>> \in (1..MaxSchemaRows) \X Schema }

\* The three-row, three-column input of the specification's example, and
\* the same rows within the full schema.
LiteralColumns ==
    [c \in {"EmployeeCount", "Attrition", "Education"} |->
        CASE c = "EmployeeCount" -> <<IntCell(1), IntCell(1), IntCell(1)>>
          [] c = "Attrition" -> <<StrCell("Yes"), StrCell("No"), StrCell("Yes")>>
          [] c = "Education" -> <<IntCell(3), IntCell(4), IntCell(1)>>]

LiteralInput == [n |-> 3, col |-> LiteralColumns]

LiteralInSchema ==
    [n |-> 3,
     col |-> [c \in Schema |->
                IF c \in DOMAIN LiteralColumns THEN LiteralColumns[c]
                ELSE [k \in 1..3 |-> DefaultCell(c, k)]]]

Datasets ==
    PruneInputs \cup AttritionInputs \cup CodeInputs \cup SchemaInputs
        \cup {LiteralInput, LiteralInSchema}

\* What pd.read_csv makes of a file that is not the comma-separated table
\* but that its parser tolerates (the export written with semicolons, a
\* plain text file): every line has one field, so the table has a single
\* column, named by the whole first line, and one string cell per line.
GarbledColumn == "EmployeeCount;Attrition;Education"

MalformedTables ==
    { [n |-> n, col |-> [c \in {GarbledColumn} |-> [k \in 1..n |-> StrCell("1;Yes;3")]]]
      : n \in 0..MaxSchemaRows }

\* What the hard-coded path of line 31 resolves to: nothing; a file that
\* cannot be opened; an empty file; a file that is not well-formed, which
\* the parser either rejects (data is NoDataFrame) or tolerates (data is
\* the table it makes of it); or a CSV file holding a table.
Files ==
    {[kind |-> k, data |-> NoDataFrame]
        : k \in {"missing", "unreadable", "empty", "malformed"}}
        \cup {[kind |-> "malformed", data |-> T] : T \in MalformedTables}
        \cup {[kind |-> "ok", data |-> D] : D \in Datasets}

(* --------------------------- the program ------------------------------ *)

Init ==
    /\ file \in Files
    /\ pc = "load"
    /\ df = NoDataFrame
    /\ i = 0
    /\ recoded = {}
    /\ attrition_rate = NoRate
    /\ stdout = <<>>
    /\ error = ""
    /\ figures = 0
    /\ trace = <<>>

\* An uncaught exception: the interpreter prints a traceback and the
\* process ends; nothing else changes.
Raise(exc) ==
    /\ pc' = "crashed"
    /\ error' = exc
    /\ UNCHANGED <<df, i, recoded, attrition_rate, stdout, figures>>

\* The exception pd.read_csv raises on the file f, "" when it returns a
\* table: it returns one for every file its parser can split into rows of
\* fields, whatever the columns turn out to be.
ReadCsvError(f) ==
    CASE f.kind = "missing" -> "FileNotFoundError"
      [] f.kind = "unreadable" -> "PermissionError"
      [] f.kind = "empty" -> "EmptyDataError"
      [] f.kind = "malformed" /\ f.data = NoDataFrame -> "ParserError"
      [] OTHER -> ""

\* The except clause of line 33.
Caught(exc) == exc = "FileNotFoundError"

\* A handler that prints the diagnostic and falls through to line 39.
AfterNotFoundContinue == "explore"

\* exit() of line 36: where the script is after the diagnostic.
AfterNotFound == "exited"

\* Lines 30-36: read the file; whatever table read_csv returns is bound to
\* df, a FileNotFoundError is reported and the script exits, any other
\* exception of read_csv is not caught.
Load ==
    /\ pc = "load"
    /\ trace' = Append(trace, "load")
    /\ IF ReadCsvError(file) = ""
       THEN /\ df' = file.data
            /\ stdout' = Append(stdout, "Dataset loaded successfully.")
            /\ pc' = "explore"
            /\ UNCHANGED <<i, recoded, attrition_rate, error, figures>>
       ELSE IF Caught(ReadCsvError(file))
       THEN /\ stdout' = stdout \o
                    <<"Error: The CSV file 'WA_Fn-UseC_-HR-Employee-Attrition .csv' was not found.",
                      "Please make sure the file is in the same directory as the script.">>
            /\ pc' = AfterNotFound
            /\ UNCHANGED <<df, i, recoded, attrition_rate, error, figures>>
       ELSE Raise(ReadCsvError(file))
    /\ UNCHANGED file

\* Lines 38-54: print the shape, the head, the info, the missing values and
\* the duplicate rows.  stdout holds the lines whose text the script itself
\* composes; the tables pandas renders (df.head(), df.info(), the Series of
\* df.isnull().sum()) are not part of it.
Explore ==
    /\ pc = "explore"
    /\ trace' = Append(trace, "explore")
    /\ stdout' = stdout \o
            <<"Shape of the dataset (rows, columns): (" \o ToString(len(df)) \o ", "
                \o ToString(Cardinality(Columns(df))) \o ")",
              "First 5 rows of the dataset:",
              "Dataset information:",
              "Missing values in the dataset:",
              "Number of duplicate rows: " \o ToString(DuplicatedCount(df))>>
    /\ pc' = "prune"
    /\ i' = 1
    /\ UNCHANGED <<file, df, recoded, attrition_rate, error, figures>>

\* Lines 62-65: one iteration of the loop over columns_to_drop.
Prune ==
    /\ pc = "prune"
    /\ trace' = Append(trace, "prune")
    /\ df' = PruneColumn(df, columns_to_drop[i])
    /\ stdout' = IF ShouldDrop(df, columns_to_drop[i])
                 THEN Append(stdout, "Dropped column '" \o columns_to_drop[i]
                                        \o "' as it contains only one unique value.")
                 ELSE stdout
    /\ i' = LoopNext(df, i)
    /\ pc' = IF LoopNext(df, i) = 0 THEN "recode" ELSE "prune"
    /\ UNCHANGED <<file, recoded, attrition_rate, error, figures>>

\* One of the lines 77-83, for column c; lines 85-87 follow the last one.
\* df[c] raises a KeyError when the table has no column c.
RecodeStep(c) ==
    /\ pc = "recode"
    /\ trace' = Append(trace, "recode")
    /\ IF c \in Columns(df)
       THEN /\ df' = RecodeColumn(df, c)
            /\ recoded' = recoded \cup {c}
            /\ IF recoded \cup {c} = OrdinalSet
               THEN /\ pc' = "rate"
                    /\ stdout' = stdout \o
                            <<"Categorical columns mapped to descriptive labels.",
                              "Updated DataFrame info:">>
               ELSE /\ pc' = "recode"
                    /\ stdout' = stdout
            /\ UNCHANGED <<i, attrition_rate, error, figures>>
       ELSE Raise("KeyError")
    /\ UNCHANGED file

\* The lines 77-83 in the order of the script.
Recode == RecodeStep(OrdinalColumns[Cardinality(recoded) + 1])

\* Lines 92-94: df['Attrition'] and attrition_counts['Yes'] each raise a
\* KeyError when the key is absent.
ComputeAttritionRate ==
    /\ pc = "rate"
    /\ trace' = Append(trace, "rate")
    /\ IF "Attrition" \in Columns(df) /\ HasYes(df)
       THEN /\ attrition_rate' = AttritionRate(df)
            /\ stdout' = Append(stdout, "Overall Attrition Rate: "
                                    \o Format2f(AttritionRate(df)) \o "%")
            /\ pc' = "countplots"
            /\ UNCHANGED <<df, i, recoded, error, figures>>
       ELSE Raise("KeyError")
    /\ UNCHANGED file

\* A chart stage that encodes the outcome column in place before plotting.
ChartStageInPlace(at, columns, next) ==
    /\ pc = at
    /\ trace' = Append(trace, at)
    /\ IF columns \subseteq Columns(df)
       THEN /\ figures' = figures + 1
            /\ pc' = next
            /\ df' = [df EXCEPT !.col["Attrition"] =
                        SeriesMap(df.col["Attrition"], <<"Yes", "No">>)]
            /\ UNCHANGED <<i, recoded, attrition_rate, stdout, error>>
       ELSE Raise("ValueError")
    /\ UNCHANGED file

\* A chart stage: seaborn raises a ValueError for a column the table lacks;
\* otherwise the figure is shown and the table is only read.
ChartStage(at, columns, next) ==
    /\ pc = at
    /\ trace' = Append(trace, at)
    /\ IF columns \subseteq Columns(df)
       THEN /\ figures' = figures + 1
            /\ pc' = next
            /\ UNCHANGED <<df, i, recoded, attrition_rate, stdout, error>>
       ELSE Raise("ValueError")
    /\ UNCHANGED file

\* Lines 97-116
CountPlots == ChartStage("countplots", CountPlotColumns, "histplots")

\* Lines 119-135
HistPlots == ChartStage("histplots", HistPlotColumns, "violinplot")

\* Lines 138-144
ViolinPlot == ChartStage("violinplot", ViolinPlotColumns, "boxplot")

\* Lines 147-154
BoxPlot == ChartStage("boxplot", BoxPlotColumns, "done")

Next ==
    \/ Load
    \/ Explore
    \/ Prune
    \/ Recode
    \/ ComputeAttritionRate
    \/ CountPlots
    \/ HistPlots
    \/ ViolinPlot
    \/ BoxPlot

Spec == Init /\ [][Next]_vars

\* The script with the seven recoding statements taken in any order, on
\* the inputs that vary the codes.
RecodeAnyOrder == \E c \in OrdinalSet \ recoded : RecodeStep(c)

InitOrder == Init /\ file.kind = "ok" /\ file.data \in CodeInputs
                  /\ len(file.data) <= MaxOrderRows

NextOrder ==
    \/ Load
    \/ Explore
    \/ Prune
    \/ RecodeAnyOrder

SpecOrder == InitOrder /\ [][NextOrder]_vars

(* ------------------------------ claims -------------------------------- *)

\* The table as read from the file.
Loaded == file.data

Terminal == pc \in {"done", "exited", "crashed"}

IsPrefix(s, t) == Len(s) <= Len(t) /\ \A k \in 1..Len(s) : s[k] = t[k]

\* The statements of the script in program order.
ProgramOrder ==
    <<"load", "explore", "prune", "prune", "prune",
      "recode", "recode", "recode", "recode", "recode", "recode", "recode",
      "rate", "countplots", "histplots", "violinplot", "boxplot">>

\* The loop of lines 62-65 has ended on a loaded table.
PruneDone == df # NoDataFrame /\ pc \notin {"explore", "prune"}

\* The number of records whose Attrition is "Yes".
YesCount(D) == Cardinality({k \in 1..len(D) : D.col["Attrition"][k] = StrCell("Yes")})

\* The cell x is a key of column c's table.
ValidCode(c, x) == x.kind = "int" /\ x.int \in DOMAIN OrdinalMap(c)

\* The double (yes / n) * 100, the division first, for yes of n records;
\* 0.0, written with 53 zero bits, when yes is 0.
ShareTimes100(yes, n) ==
    IF yes = 0 THEN [sig |-> Zeros(53), exp |-> 0]
    ELSE FloatMulInt(FloatDiv(yes, n), 100)

\* What lines 92-93 yield on the table D: the rate, or none (a KeyError).
RateOutcome(D) ==
    IF "Attrition" \in Columns(D) /\ HasYes(D) THEN AttritionRate(D) ELSE NoRate

\* C1: after Load on a missing file the script has exited with the
\* two-line diagnostic, holds no table, and no later statement has run:
\* nothing was pruned or recoded, no rate computed, no figure shown.
C1_MissingFileStops ==
    (file.kind = "missing" /\ pc # "load") =>
        /\ pc = "exited"
        /\ df = NoDataFrame
        /\ error = ""
        /\ Len(stdout) = 2
        /\ "Dataset loaded successfully." \notin Range(stdout)
        /\ trace = <<"load">>
        /\ recoded = {}
        /\ attrition_rate = NoRate
        /\ figures = 0

C1_Witness == file.kind = "missing" /\ pc = "exited" /\ Len(stdout) = 2

\* C2 (as claimed): once lines 92-94 have run on a non-empty table, the
\* rate is bound and is the number of "Yes" records divided by the number
\* of records, times 100, in the doubles the script computes in (so 0 when
\* no record is "Yes", 100 when all are).
C2_RateIsYesShare ==
    ((\E k \in DOMAIN trace : trace[k] = "rate")
        /\ "Attrition" \in Columns(df) /\ len(df) > 0) =>
        /\ attrition_rate # NoRate
        /\ attrition_rate = ShareTimes100(YesCount(df), len(df))
        /\ (YesCount(df) = len(df) => Hundredths(attrition_rate) = 10000)

\* The column holds one value, the same in every record (a missing cell is
\* no value).
AllAlike(s) == \E k \in DOMAIN s : s[k] # NaN /\ \A j \in DOMAIN s : s[j] = s[k]

\* The column holds exactly one distinct value that is not missing; other
\* cells may be missing.
OneValue(s) ==
    \E k \in DOMAIN s : s[k] # NaN /\ \A j \in DOMAIN s : s[j] \in {s[k], NaN}

\* C3 (as claimed): after Prune a column of the loaded table is gone if and
\* only if it is a candidate whose value is identical across all records.
C3_DroppedIffIdentical ==
    PruneDone =>
        \A c \in Columns(Loaded) :
            (c \notin Columns(df)) <=> (c \in CandidateSet /\ AllAlike(Loaded.col[c]))

\* C3 (amended): after Prune a column of the loaded table is gone if and
\* only if it is a candidate holding exactly one distinct non-missing
\* value; no column is added and no other column is removed.
C3_DroppedIffOneValue ==
    PruneDone =>
        /\ Columns(df) \subseteq Columns(Loaded)
        /\ \A c \in Columns(Loaded) :
            (c \notin Columns(df)) <=> (c \in CandidateSet /\ OneValue(Loaded.col[c]))

C3_Witness ==
    /\ pc = "recode"
    /\ "EmployeeCount" \in Columns(Loaded) \ Columns(df)
    /\ NaN \in Range(Loaded.col["EmployeeCount"])
    /\ "StandardHours" \in Columns(df)
    /\ "Over18" \notin Columns(df)

\* C4: pruning is idempotent: pruning the pruned table again changes
\* nothing, for the table the loop has just produced and for the loop as a
\* function of the loaded table.
C4_PruneIdempotent ==
    (pc = "recode" /\ recoded = {}) =>
        /\ prune_constant_columns(df) = df
        /\ prune_constant_columns(prune_constant_columns(Loaded))
             = prune_constant_columns(Loaded)

C4_Witness ==
    /\ pc = "recode"
    /\ recoded = {}
    /\ Cardinality(Columns(Loaded) \ Columns(df)) >= 2
    /\ len(df) >= 2

\* C5: when the seven columns have been recoded, in whatever order, every
\* cell that held a valid code k of column C holds the label of C's table
\* for k, and the table is the one the script's own order produces.
C5_RecodeByTable ==
    recoded = OrdinalSet =>
        /\ \A c \in OrdinalSet : \A k \in 1..len(Loaded) :
              ValidCode(c, Loaded.col[c][k]) =>
                  df.col[c][k] = StrCell(OrdinalMap(c)[Loaded.col[c][k].int])
        /\ df = RecodeFrom(prune_constant_columns(Loaded), 1)

C5_Witness ==
    /\ recoded = OrdinalSet
    /\ Loaded.col["Education"] = <<IntCell(5)>>
    /\ df.col["Education"] = <<StrCell("Doctor")>>
    /\ df.col["PerformanceRating"] = <<StrCell("Good")>>

\* What the example expects of the run.
LiteralResult ==
    /\ "EmployeeCount" \notin Columns(df)
    /\ "Education" \in Columns(df)
    /\ df.col["Education"]
         = <<StrCell("Bachelor"), StrCell("Master"), StrCell("Below College")>>
    /\ attrition_rate # NoRate
    /\ "Overall Attrition Rate: 66.67%" \in Range(stdout)

\* C6 (as claimed): the run on the three-column, three-row input ends with
\* EmployeeCount removed, Education recoded and the rate printed as 66.67.
C6_LiteralExample == (Loaded = LiteralInput /\ Terminal) => LiteralResult

\* C6 (amended): the run on the same three rows within the full schema
\* completes with EmployeeCount removed, Education recoded to Bachelor,
\* Master, Below College and the rate printed as 66.67.
C6_LiteralInSchema ==
    (Loaded = LiteralInSchema /\ Terminal) => (pc = "done" /\ LiteralResult)

C6_Witness == Loaded = LiteralInSchema /\ pc = "done" /\ Hundredths(attrition_rate) = 6667

\* C7: every file that is not a readable, well-formed table ends as a
\* missing one does: Load prints the two-line diagnostic and the script
\* exits, holding no table, with no uncaught exception and with no later
\* statement run.
C7_UnloadableLikeMissing ==
    (file.kind # "ok" /\ pc # "load") =>
        /\ pc = "exited"
        /\ Len(stdout) = 2
        /\ error = ""
        /\ df = NoDataFrame
        /\ trace = <<"load">>

\* C8: the statements run in program order (one load, then the pruning
\* loop, then the recoding), only those three write the table, and once the
\* seven columns are recoded no step changes it.
C8_Lifecycle ==
    [][ /\ IsPrefix(trace', ProgramOrder)
        /\ (df' # df => pc \in {"load", "prune", "recode"})
        /\ (recoded = OrdinalSet => df' = df) ]_vars

C8_Witness ==
    /\ pc = "done"
    /\ figures = 4
    /\ trace = ProgramOrder
    /\ df = RecodeFrom(prune_constant_columns(Loaded), 1)

\* C9: preparation keeps the records and everything outside its targets:
\* the row count, every column that is neither a candidate nor ordinal
\* (Attrition among them), the cells of a kept candidate; so lines 92-93
\* yield on the cleaned table what they yield on the table as loaded, and
\* that is the rate the script binds.
C9_Frame ==
    df # NoDataFrame =>
        /\ len(df) = len(Loaded)
        /\ Columns(df) \subseteq Columns(Loaded)
        /\ \A c \in Columns(Loaded) :
              /\ c \notin CandidateSet => c \in Columns(df)
              /\ (c \in Columns(df) /\ c \notin OrdinalSet) => df.col[c] = Loaded.col[c]
        /\ pc = "rate" => RateOutcome(df) = RateOutcome(Loaded)
        /\ pc = "countplots" => attrition_rate = RateOutcome(Loaded)
        /\ attrition_rate # NoRate => "rate" \in Range(trace)

C9_Witness ==
    /\ pc = "countplots"
    /\ Columns(df) # Columns(Loaded)
    /\ "StandardHours" \in Columns(df)
    /\ len(df) >= 2
    /\ attrition_rate = RateOutcome(Loaded)

\* C10: a code outside the column's table raises nothing: the recoding of
\* a table with the seven columns never ends in an exception, the cell
\* becomes missing, the valid cells get their labels, no record is lost, and
\* the rate the script then binds is taken over every loaded record.
C10_UnmappedCodeBecomesMissing ==
    /\ (pc = "crashed" /\ df # NoDataFrame /\ OrdinalSet \subseteq Columns(Loaded)) =>
          trace[Len(trace)] # "recode"
    /\ recoded = OrdinalSet =>
          /\ len(df) = len(Loaded)
          /\ \A c \in OrdinalSet : \A k \in 1..len(Loaded) :
                df.col[c][k] = IF ValidCode(c, Loaded.col[c][k])
                               THEN StrCell(OrdinalMap(c)[Loaded.col[c][k].int])
                               ELSE NaN
    /\ pc = "countplots" =>
          attrition_rate = ShareTimes100(YesCount(Loaded), len(Loaded))

C10_Witness ==
    /\ pc = "countplots"
    /\ len(Loaded) = 2
    /\ Loaded.col["JobSatisfaction"] = <<IntCell(5), IntCell(2)>>
    /\ df.col["JobSatisfaction"] = <<NaN, StrCell("Medium")>>
    /\ Hundredths(attrition_rate) = 5000

====
